---- MODULE Spec2Model ----
(***************************************************************************)
(* Model of fast-api.py: a FastAPI facade in front of a Dremio engine.     *)
(*                                                                         *)
(* Text is a sequence of characters, each character a one-element string;  *)
(* a non-ASCII character is written by its code point ("U+017F").          *)
(* Every request handler is a coroutine on one event loop: it runs without *)
(* interruption from one await of an upstream call to the next.  An action *)
(* is one such segment: the awaited call returns (its response is drawn    *)
(* from a small set) and the handler runs up to its next await.            *)
(* get_dremio_token is synchronous (httpx.post), so a login happens inside *)
(* the segment that calls it.                                              *)
(***************************************************************************)
EXTENDS Integers, Sequences, FiniteSets, TLC

\* ------------------------------------------------------------- bounds
NumRequests == 2      \* inbound requests handled by the process
MaxPolls == 2         \* non-terminal answers the engine gives to one job's polls
MaxPieces == 3        \* pieces a generated SQL text is put together from

Requests == 1..NumRequests

\* ------------------------------------------------------------- text
LowerCase == <<"a","b","c","d","e","f","g","h","i","j","k","l","m",
               "n","o","p","q","r","s","t","u","v","w","x","y","z">>
UpperCase == <<"A","B","C","D","E","F","G","H","I","J","K","L","M",
               "N","O","P","Q","R","S","T","U","V","W","X","Y","Z">>
Digits == {"0","1","2","3","4","5","6","7","8","9"}
Range(f) == {f[i] : i \in DOMAIN f}

\* str.isspace / the regex class \s
SpaceChars == {" ", "\t", "\n", "\r", "\f", "U+000B", "U+00A0"}
IsSpace(c) == c \in SpaceChars

\* the regex class \w (str patterns: Unicode letters, digits, underscore)
WordChars == Range(LowerCase) \cup Range(UpperCase) \cup Digits
             \cup {"_", "U+017F", "U+00E9"}
IsWord(c) == c \in WordChars

\* re.IGNORECASE on a str pattern: two characters match when they have the
\* same case folding (U+017F, the long s, folds to s)
FoldMap == [c \in Range(LowerCase) \cup {"U+017F"} |->
               IF c = "U+017F" THEN "S"
               ELSE UpperCase[CHOOSE i \in DOMAIN LowerCase : LowerCase[i] = c]]
Fold(c) == IF c \in DOMAIN FoldMap THEN FoldMap[c] ELSE c

\* a literal of a pattern matched at position i of s; ic is re.IGNORECASE
LiteralAt(s, i, lit, ic) ==
    /\ i >= 1
    /\ i + Len(lit) - 1 <= Len(s)
    /\ \A k \in 1..Len(lit) :
          IF ic THEN Fold(s[i + k - 1]) = Fold(lit[k]) ELSE s[i + k - 1] = lit[k]

\* the assertion \b between s[i] and s[i+1] (i = 0: start, i = Len(s): end)
WordBoundary(s, i) ==
    LET before == i >= 1 /\ i <= Len(s) /\ IsWord(s[i])
        after  == i + 1 >= 1 /\ i + 1 <= Len(s) /\ IsWord(s[i + 1])
    IN  before # after

\* str.strip(): leading and trailing whitespace removed
strip(s) ==
    LET keep == {i \in 1..Len(s) : ~IsSpace(s[i])}
    IN  IF keep = {} THEN <<>>
        ELSE LET lo == CHOOSE i \in keep : \A j \in keep : i <= j
                 hi == CHOOSE i \in keep : \A j \in keep : i >= j
             IN  SubSeq(s, lo, hi)

SELECT == <<"S","E","L","E","C","T">>

HARMFUL_COMMANDS == <<
    <<"D","R","O","P">>,
    <<"D","E","L","E","T","E">>,
    <<"I","N","S","E","R","T">>,
    <<"U","P","D","A","T","E">>,
    <<"A","L","T","E","R">>,
    <<"C","R","E","A","T","E">>,
    <<"T","R","U","N","C","A","T","E">>,
    <<"R","E","P","L","A","C","E">>,
    <<"M","E","R","G","E">>,
    <<"E","X","E","C">>,
    <<"E","X","E","C","U","T","E">>,
    <<"G","R","A","N","T">>,
    <<"R","E","V","O","K","E">>,
    <<"S","E","T">>,
    <<"U","S","E">>,
    <<"C","A","L","L">>,
    <<"L","O","C","K">>,
    <<"U","N","L","O","C","K">>,
    <<"R","E","N","A","M","E">>,
    <<"C","O","M","M","E","N","T">>,
    <<"C","O","M","M","I","T">>,
    <<"R","O","L","L","B","A","C","K">>,
    <<"S","A","V","E","P","O","I","N","T">>,
    <<"R","E","L","E","A","S","E">> >>

\* faulty variant of MatchSelect: the closing \b left out
MatchSelectNoBoundary(s) ==
    \E j \in 0..Len(s) :
        /\ \A i \in 1..j : IsSpace(s[i])
        /\ LiteralAt(s, j + 1, SELECT, TRUE)

\* faulty variant of MatchSelect: re.IGNORECASE left out
MatchSelectCaseSensitive(s) ==
    \E j \in 0..Len(s) :
        /\ \A i \in 1..j : IsSpace(s[i])
        /\ LiteralAt(s, j + 1, SELECT, FALSE)
        /\ WordBoundary(s, j + Len(SELECT))

\* re.match(r"^\s*SELECT\b", s, re.IGNORECASE)
MatchSelect(s) ==
    \E j \in 0..Len(s) :
        /\ \A i \in 1..j : IsSpace(s[i])
        /\ LiteralAt(s, j + 1, SELECT, TRUE)
        /\ WordBoundary(s, j + Len(SELECT))

\* faulty variant of SearchHarmful: re.IGNORECASE left out
SearchHarmfulCaseSensitive(s) ==
    \E i \in 1..Len(s) : \E k \in DOMAIN HARMFUL_COMMANDS :
        /\ WordBoundary(s, i - 1)
        /\ LiteralAt(s, i, HARMFUL_COMMANDS[k], FALSE)
        /\ WordBoundary(s, i - 1 + Len(HARMFUL_COMMANDS[k]))

\* re.search(HARMFUL_COMMANDS, s, re.IGNORECASE)
SearchHarmful(s) ==
    \E i \in 1..Len(s) : \E k \in DOMAIN HARMFUL_COMMANDS :
        /\ WordBoundary(s, i - 1)
        /\ LiteralAt(s, i, HARMFUL_COMMANDS[k], TRUE)
        /\ WordBoundary(s, i - 1 + Len(HARMFUL_COMMANDS[k]))

\* validate_sql: 400 when it raises HTTPException(400), 0 when it returns
validate_sql(text) ==
    IF ~MatchSelect(strip(text)) \/ SearchHarmful(text) THEN 400 ELSE 0


\* ------------------------------------------------------------- upstream
\* the values response.json().get("token") can have ("None": no such field)
Tokens == {"tokA", "None"}
\* response.json().get("id"): the engine gives every submission its own job id
JobIdOf(r) == "job" \o ToString(r)
\* the values status_response.json().get("jobState") can have
TerminalStates == {"COMPLETED", "FAILED", "CANCELED"}
\* a state of a running job, a name the loop does not know, and no jobState
NonTerminalStates == {"RUNNING", "CANCELLED", "None"}
\* JSON bodies of the results, catalog and source endpoints
ResultBodies == {"rowsA", "rowsB"}
CatalogBodies == {"catalogA", "catalogB"}
SourceBodies == {"sourcesA", "sourcesB"}
\* response.json().get("data", []) of a source listing: the type of each item
\* (sourcesB has no "data" field)
json_data(body) ==
    IF body = "sourcesA" THEN <<"HOME", "S3">> ELSE <<>>

\* an HTTP response with a body, a non-2xx response, a transport error
Ok(b) == [kind |-> "response", status |-> 200, body |-> b]
Non2xx == [kind |-> "response", status |-> 500, body |-> "None"]
TransportError == [kind |-> "transport", status |-> 0, body |-> "None"]
NoResponse == [kind |-> "none", status |-> 0, body |-> "None"]

LoginResponses == {Ok(t) : t \in Tokens}
                  \cup {[kind |-> "response", status |-> 401, body |-> "None"],
                        TransportError}
SubmitResponses(r) == {Ok(JobIdOf(r)), Non2xx, TransportError}
ResultResponses == {Ok(b) : b \in ResultBodies} \cup {Non2xx, TransportError}
CatalogResponses == {Ok(b) : b \in CatalogBodies} \cup {Non2xx, TransportError}
SourceResponses == {Ok(b) : b \in SourceBodies} \cup {Non2xx, TransportError}
\* the engine answers at most MaxPolls polls of a job with a non-terminal state
StatusResponses(n) ==
    {Ok(s) : s \in TerminalStates} \cup {Non2xx, TransportError}
    \cup (IF n < MaxPolls THEN {Ok(s) : s \in NonTerminalStates} ELSE {})

\* httpx raises (a transport error, or raise_for_status on a non-2xx status)
Raises(u) == u.kind = "transport" \/ u.status \notin 200..299

\* the SQL texts of the inbound query requests
SampleSQL == {
    <<"D","E","L","E","T","E"," ","F","R","O","M"," ","x">>,
    <<"S","E","L","E","C","T"," ","*"," ","F","R","O","M"," ","t">>,
    <<"S","E","L","E","C","T"," ","*"," ","F","R","O","M"," ","t",";"," ",
      "D","R","O","P"," ","T","A","B","L","E"," ","t">> }

\* validate_sql(payload.sql) for each text of the inbound requests
Verdicts == {<<q, validate_sql(q)>> : q \in SampleSQL}

\* ------------------------------------------------------------- state
VARIABLES
    cache,       \* lru_cache of get_dremio_token: NoEntry or the cached value
    pc,          \* pc[r]: the await the handler of request r is suspended at
    kind,        \* kind[r]: the route of request r
    sql,         \* sql[r]: payload.sql
    job_id,      \* job_id[r]: the id execute_dremio_query returned
    job_status,  \* job_status[r]: the jobState the last status poll returned
    tokens,      \* tokens[r]: the values get_dremio_token returned to r, in order
    calls,       \* calls[r]: outbound calls r has issued, by endpoint
    waits,       \* waits[r]: status polls of r that returned a non-terminal state
    last,        \* last[r]: the last upstream response r received
    resp,        \* resp[r]: the HTTP response sent to the client of r
    polled,      \* polled[r]: the job id in the URL of r's last status or results call
    vsql,        \* the text given to validate_sql when it is checked alone
    vres         \* and its outcome

vars == <<cache, pc, kind, sql, job_id, job_status, tokens, calls, waits,
          last, resp, polled, vsql, vres>>

NoEntry == "NO_ENTRY"
NoCalls == [login |-> 0, submit |-> 0, status |-> 0, results |-> 0,
            catalog |-> 0, source |-> 0]
\* a response to the client: status code, the detail and argument of an
\* HTTPException, and the JSON returned: body names an upstream document
\* returned as received, items is a list the handler returns
NoReply == [code |-> 0, detail |-> "None", arg |-> "None", body |-> "None",
            items |-> <<>>]
Reply(code, detail, arg, body) ==
    [code |-> code, detail |-> detail, arg |-> arg, body |-> body, items |-> <<>>]
ReplyList(items) ==
    [code |-> 200, detail |-> "None", arg |-> "None", body |-> "None",
     items |-> items]
Received(op, u) ==
    [op |-> op, kind |-> u.kind, status |-> u.status, body |-> u.body]

Init ==
    /\ cache = NoEntry
    /\ pc = [r \in Requests |-> "idle"]
    /\ kind = [r \in Requests |-> "none"]
    /\ sql = [r \in Requests |-> <<>>]
    /\ job_id = [r \in Requests |-> "None"]
    /\ job_status = [r \in Requests |-> "None"]
    /\ tokens = [r \in Requests |-> <<>>]
    /\ calls = [r \in Requests |-> NoCalls]
    /\ waits = [r \in Requests |-> 0]
    /\ last = [r \in Requests |-> Received("none", NoResponse)]
    /\ resp = [r \in Requests |-> NoReply]
    /\ polled = [r \in Requests |-> "None"]
    /\ vsql = <<>>
    /\ vres = -1

\* ------------------------------------------------------------- credential cache
\* faulty variant of get_dremio_token: no lru_cache
get_dremio_token_uncached(c, login) ==
    IF login.kind = "transport"
    THEN [cache |-> c, logins |-> 1, exc |-> "httpx.HTTPError", value |-> "None"]
    ELSE IF login.status # 200
    THEN [cache |-> c, logins |-> 1, exc |-> "HTTPException", value |-> "None"]
    ELSE [cache |-> login.body, logins |-> 1, exc |-> "none", value |-> login.body]

\* faulty variant of get_dremio_token: the status check left out
get_dremio_token_unchecked(c, login) ==
    IF c # NoEntry
    THEN [cache |-> c, logins |-> 0, exc |-> "none", value |-> c]
    ELSE IF login.kind = "transport"
    THEN [cache |-> c, logins |-> 1, exc |-> "httpx.HTTPError", value |-> "None"]
    ELSE [cache |-> login.body, logins |-> 1, exc |-> "none", value |-> login.body]

\* faulty variant of get_dremio_token: a failed login remembered as no token
get_dremio_token_failure_cached(c, login) ==
    IF c # NoEntry
    THEN [cache |-> c, logins |-> 0, exc |-> "none", value |-> c]
    ELSE IF login.kind = "transport"
    THEN [cache |-> "None", logins |-> 1, exc |-> "httpx.HTTPError", value |-> "None"]
    ELSE IF login.status # 200
    THEN [cache |-> "None", logins |-> 1, exc |-> "HTTPException", value |-> "None"]
    ELSE [cache |-> login.body, logins |-> 1, exc |-> "none", value |-> login.body]

\* get_dremio_token() with the cache c; login is what the engine answers if
\* asked.  lru_cache stores a returned value (None too), never an exception.
get_dremio_token(c, login) ==
    IF c # NoEntry
    THEN [cache |-> c, logins |-> 0, exc |-> "none", value |-> c]
    ELSE IF login.kind = "transport"
    THEN [cache |-> c, logins |-> 1, exc |-> "httpx.HTTPError", value |-> "None"]
    ELSE IF login.status # 200
    THEN [cache |-> c, logins |-> 1, exc |-> "HTTPException", value |-> "None"]
    ELSE [cache |-> login.body, logins |-> 1, exc |-> "none", value |-> login.body]

\* ------------------------------------------------------------- handlers
AUTH_FAILED == "Authentication with Dremio failed."
INVALID_QUERY == "Only SELECT queries are allowed, and no harmful SQL commands are permitted."
QUERY_FAILED == "Query failed with status: "
QUERY_API_ERROR == "Dremio API error: "
CATALOG_API_ERROR == "Dremio catalog fetch failed: "
SOURCES_API_ERROR == "Dremio sources fetch failed: "

\* requests are numbered in the order their handlers start
Arrived(r) == IF r = 1 THEN TRUE ELSE pc[r - 1] # "idle"

\* faulty variant of Blocked: a login call that yields to the event loop
NotBlocked(r) == FALSE

\* faulty variant of Blocked: the status polls synchronous calls as well
BlockedWhilePolling(r) == \E o \in Requests \ {r} : pc[o] \in {"login", "status"}

\* the login of get_dremio_token is a synchronous httpx.post inside a
\* coroutine: while a request is in it the event loop runs no other handler
Blocked(r) == \E o \in Requests \ {r} : pc[o] = "login"

\* the first await of a route's handler, and the prefix the route puts
\* before an httpx.HTTPError
FirstAwait(k) ==
    IF k = "query" THEN "submit" ELSE IF k = "catalog" THEN "catalog" ELSE "source"
ErrorPrefix(k) ==
    IF k = "query" THEN QUERY_API_ERROR
    ELSE IF k = "catalog" THEN CATALOG_API_ERROR
    ELSE SOURCES_API_ERROR

\* the handler of r returns or raises: the response goes to the client
Finish(r, reply) ==
    /\ pc' = [pc EXCEPT ![r] = "done"]
    /\ resp' = [resp EXCEPT ![r] = reply]

\* the handler of r suspends at its next await
Await(r, at) ==
    /\ pc' = [pc EXCEPT ![r] = at]
    /\ UNCHANGED resp

\* an exception leaves a route: httpx.HTTPError is caught and wrapped with the
\* route's prefix, an HTTPException passes through
ErrorReply(exc, prefix) ==
    IF exc = "HTTPException"
    THEN Reply(500, AUTH_FAILED, "None", "None")
    ELSE Reply(500, prefix, exc, "None")

\* one get_dremio_token() call by r with outcome g, after which r's call
\* counts and last response are calls0 and last0 plus the login, if one was made
TokenCall(r, g, login, calls0, last0) ==
    /\ cache' = g.cache
    /\ tokens' = IF g.exc = "none"
                 THEN [tokens EXCEPT ![r] = Append(@, g.value)]
                 ELSE tokens
    /\ calls' = [calls0 EXCEPT ![r].login = @ + g.logins]
    /\ last' = IF g.logins = 1
               THEN [last0 EXCEPT ![r] = Received("login", login)]
               ELSE last0

\* the login call of get_dremio_token returns to the handler that made it on
\* a cache miss: lru_cache stores what the function returns, and nothing
\* when it raises, and the handler runs up to its first await
get_dremio_token_login(r) ==
    /\ pc[r] = "login"
    /\ ~Blocked(r)
    /\ \E login \in LoginResponses :
         LET miss == get_dremio_token(NoEntry, login)
             g == IF miss.cache = NoEntry THEN [miss EXCEPT !.cache = cache] ELSE miss
         IN
         /\ TokenCall(r, g, login, calls, last)
         /\ IF g.exc = "none"
            THEN Await(r, FirstAwait(kind[r]))
            ELSE Finish(r, ErrorReply(g.exc, ErrorPrefix(kind[r])))
    /\ UNCHANGED <<kind, sql, job_id, job_status, waits, polled, vsql, vres>>

\* ---- POST /dremio/query
\* faulty variant of run_query: the token is obtained before the guard runs
run_query_token_first(r) ==
    /\ pc[r] = "idle"
    /\ ~Blocked(r)
    /\ Arrived(r)
    /\ \E q \in SampleSQL, login \in LoginResponses :
         LET g == get_dremio_token(cache, login) IN
         /\ kind' = [kind EXCEPT ![r] = "query"]
         /\ sql' = [sql EXCEPT ![r] = q]
         /\ IF g.logins = 1
            THEN /\ Await(r, "login")
                 /\ UNCHANGED <<cache, tokens, calls, last>>
            ELSE /\ TokenCall(r, g, login, calls, last)
                 /\ IF g.exc # "none"
                    THEN Finish(r, ErrorReply(g.exc, QUERY_API_ERROR))
                    ELSE IF <<q, 400>> \in Verdicts
                    THEN Finish(r, Reply(400, INVALID_QUERY, "None", "None"))
                    ELSE Await(r, "submit")
    /\ UNCHANGED <<job_id, job_status, waits, polled, vsql, vres>>

\* run_query up to the await of the submit call, or up to the login call
\* when the cache is empty: the guard, then execute_dremio_query's token
run_query(r) ==
    /\ pc[r] = "idle"
    /\ ~Blocked(r)
    /\ Arrived(r)
    /\ \E q \in SampleSQL :
         /\ kind' = [kind EXCEPT ![r] = "query"]
         /\ sql' = [sql EXCEPT ![r] = q]
         /\ IF <<q, 400>> \in Verdicts
            THEN /\ Finish(r, Reply(400, INVALID_QUERY, "None", "None"))
                 /\ UNCHANGED <<cache, tokens, calls, last>>
            ELSE \E login \in LoginResponses :
                 LET g == get_dremio_token(cache, login) IN
                 IF g.logins = 1
                 THEN /\ Await(r, "login")
                      /\ UNCHANGED <<cache, tokens, calls, last>>
                 ELSE /\ TokenCall(r, g, login, calls, last)
                      /\ IF g.exc = "none"
                         THEN Await(r, "submit")
                         ELSE Finish(r, ErrorReply(g.exc, QUERY_API_ERROR))
    /\ UNCHANGED <<job_id, job_status, waits, polled, vsql, vres>>

\* faulty variant of execute_dremio_query: a failed submit is sent again
execute_dremio_query_retry(r) ==
    /\ pc[r] = "submit"
    /\ ~Blocked(r)
    /\ \E u \in SubmitResponses(r), login \in LoginResponses :
         LET g == get_dremio_token(cache, login)
             calls0 == [calls EXCEPT ![r].submit = @ + 1]
             last0 == [last EXCEPT ![r] = Received("submit", u)]
         IN  IF Raises(u)
             THEN /\ calls' = calls0
                  /\ last' = last0
                  /\ Await(r, "submit")
                  /\ UNCHANGED <<cache, tokens, job_id>>
             ELSE /\ job_id' = [job_id EXCEPT ![r] = u.body]
                  /\ TokenCall(r, g, login, calls0, last0)
                  /\ IF g.exc = "none"
                     THEN Await(r, "status")
                     ELSE Finish(r, ErrorReply(g.exc, QUERY_API_ERROR))
    /\ UNCHANGED <<kind, sql, job_status, waits, polled, vsql, vres>>

\* the submit call returns: execute_dremio_query returns the job id, and
\* poll_dremio_job runs up to the await of its first status poll
execute_dremio_query(r) ==
    /\ pc[r] = "submit"
    /\ ~Blocked(r)
    /\ \E u \in SubmitResponses(r), login \in LoginResponses :
         LET g == get_dremio_token(cache, login)
             calls0 == [calls EXCEPT ![r].submit = @ + 1]
             last0 == [last EXCEPT ![r] = Received("submit", u)]
         IN  IF Raises(u)
             THEN /\ calls' = calls0
                  /\ last' = last0
                  /\ Finish(r, ErrorReply("httpx.HTTPError", QUERY_API_ERROR))
                  /\ UNCHANGED <<cache, tokens, job_id>>
             ELSE /\ job_id' = [job_id EXCEPT ![r] = u.body]
                  /\ TokenCall(r, g, login, calls0, last0)
                  /\ IF g.exc = "none"
                     THEN Await(r, "status")
                     ELSE Finish(r, ErrorReply(g.exc, QUERY_API_ERROR))
    /\ UNCHANGED <<kind, sql, job_status, waits, polled, vsql, vres>>

\* faulty variant of job_state_branch: CANCELED not handled
job_state_branch_failed_only(s) ==
    IF s = "COMPLETED" THEN "break"
    ELSE IF s = "FAILED" THEN "raise"
    ELSE "continue"

\* faulty variant of job_state_branch: the completed state misspelt
job_state_branch_typo(s) ==
    IF s = "COMPLETE" THEN "break"
    ELSE IF s \in {"FAILED", "CANCELED"} THEN "raise"
    ELSE "continue"

\* faulty variant of job_state_branch: only RUNNING keeps the loop going
job_state_branch_running_only(s) ==
    IF s = "COMPLETED" THEN "break"
    ELSE IF s = "RUNNING" THEN "continue"
    ELSE "raise"

\* what the loop of poll_dremio_job does with a jobState
job_state_branch(s) ==
    IF s = "COMPLETED" THEN "break"
    ELSE IF s \in {"FAILED", "CANCELED"} THEN "raise"
    ELSE "continue"

\* faulty variant of poll_dremio_job: the loop gives up after two polls
poll_dremio_job_max_attempts(r) ==
    /\ pc[r] = "status"
    /\ ~Blocked(r)
    /\ \E u \in StatusResponses(waits[r]) :
         /\ calls' = [calls EXCEPT ![r].status = @ + 1]
         /\ polled' = [polled EXCEPT ![r] = job_id[r]]
         /\ last' = [last EXCEPT ![r] = Received("status", u)]
         /\ IF Raises(u)
            THEN /\ Finish(r, ErrorReply("httpx.HTTPError", QUERY_API_ERROR))
                 /\ UNCHANGED <<job_status, waits>>
            ELSE /\ job_status' = [job_status EXCEPT ![r] = u.body]
                 /\ IF job_state_branch(u.body) = "break"
                    THEN Await(r, "results") /\ UNCHANGED waits
                    ELSE IF job_state_branch(u.body) = "raise"
                    THEN /\ Finish(r, Reply(500, QUERY_FAILED, u.body, "None"))
                         /\ UNCHANGED waits
                    ELSE /\ waits' = [waits EXCEPT ![r] = @ + 1]
                         /\ IF calls[r].status + 1 >= 2
                            THEN Finish(r, Reply(500, "timeout", u.body, "None"))
                            ELSE Await(r, "status")
    /\ UNCHANGED <<cache, kind, sql, job_id, tokens, vsql, vres>>

\* faulty variant of poll_dremio_job: the job polled is the first request's
poll_dremio_job_shared_id(r) ==
    /\ pc[r] = "status"
    /\ ~Blocked(r)
    /\ \E u \in StatusResponses(waits[r]) :
         /\ calls' = [calls EXCEPT ![r].status = @ + 1]
         /\ polled' = [polled EXCEPT ![r] = JobIdOf(1)]
         /\ last' = [last EXCEPT ![r] = Received("status", u)]
         /\ IF Raises(u)
            THEN /\ Finish(r, ErrorReply("httpx.HTTPError", QUERY_API_ERROR))
                 /\ UNCHANGED <<job_status, waits>>
            ELSE /\ job_status' = [job_status EXCEPT ![r] = u.body]
                 /\ IF job_state_branch(u.body) = "break"
                    THEN Await(r, "results") /\ UNCHANGED waits
                    ELSE IF job_state_branch(u.body) = "raise"
                    THEN /\ Finish(r, Reply(500, QUERY_FAILED, u.body, "None"))
                         /\ UNCHANGED waits
                    ELSE /\ waits' = [waits EXCEPT ![r] = @ + 1]
                         /\ Await(r, "status")
    /\ UNCHANGED <<cache, kind, sql, job_id, tokens, vsql, vres>>

\* one turn of the loop of poll_dremio_job: a status poll returns
poll_dremio_job(r) ==
    /\ pc[r] = "status"
    /\ ~Blocked(r)
    /\ \E u \in StatusResponses(waits[r]) :
         /\ calls' = [calls EXCEPT ![r].status = @ + 1]
         /\ polled' = [polled EXCEPT ![r] = job_id[r]]
         /\ last' = [last EXCEPT ![r] = Received("status", u)]
         /\ IF Raises(u)
            THEN /\ Finish(r, ErrorReply("httpx.HTTPError", QUERY_API_ERROR))
                 /\ UNCHANGED <<job_status, waits>>
            ELSE /\ job_status' = [job_status EXCEPT ![r] = u.body]
                 /\ IF job_state_branch(u.body) = "break"
                    THEN Await(r, "results") /\ UNCHANGED waits
                    ELSE IF job_state_branch(u.body) = "raise"
                    THEN /\ Finish(r, Reply(500, QUERY_FAILED, u.body, "None"))
                         /\ UNCHANGED waits
                    ELSE /\ waits' = [waits EXCEPT ![r] = @ + 1]
                         /\ Await(r, "status")
    /\ UNCHANGED <<cache, kind, sql, job_id, tokens, vsql, vres>>

\* faulty variant of poll_dremio_job_results: a failed fetch answered with an
\* empty result
poll_dremio_job_results_swallow(r) ==
    /\ pc[r] = "results"
    /\ ~Blocked(r)
    /\ \E u \in ResultResponses :
         /\ calls' = [calls EXCEPT ![r].results = @ + 1]
         /\ polled' = [polled EXCEPT ![r] = job_id[r]]
         /\ last' = [last EXCEPT ![r] = Received("results", u)]
         /\ Finish(r, Reply(200, "None", "None", u.body))
    /\ UNCHANGED <<cache, kind, sql, job_id, job_status, tokens, waits, vsql, vres>>

\* the results fetch returns: poll_dremio_job and run_query return its body
poll_dremio_job_results(r) ==
    /\ pc[r] = "results"
    /\ ~Blocked(r)
    /\ \E u \in ResultResponses :
         /\ calls' = [calls EXCEPT ![r].results = @ + 1]
         /\ polled' = [polled EXCEPT ![r] = job_id[r]]
         /\ last' = [last EXCEPT ![r] = Received("results", u)]
         /\ IF Raises(u)
            THEN Finish(r, ErrorReply("httpx.HTTPError", QUERY_API_ERROR))
            ELSE Finish(r, Reply(200, "None", "None", u.body))
    /\ UNCHANGED <<cache, kind, sql, job_id, job_status, tokens, waits, vsql, vres>>

\* ---- GET /dremio/catalog
\* catalog up to the await of the catalog call: get_dremio_catalog's token
catalog(r) ==
    /\ pc[r] = "idle"
    /\ ~Blocked(r)
    /\ Arrived(r)
    /\ \E login \in LoginResponses :
         LET g == get_dremio_token(cache, login) IN
         /\ kind' = [kind EXCEPT ![r] = "catalog"]
         /\ IF g.logins = 1
            THEN /\ Await(r, "login")
                 /\ UNCHANGED <<cache, tokens, calls, last>>
            ELSE /\ TokenCall(r, g, login, calls, last)
                 /\ IF g.exc = "none"
                    THEN Await(r, "catalog")
                    ELSE Finish(r, ErrorReply(g.exc, CATALOG_API_ERROR))
    /\ UNCHANGED <<sql, job_id, job_status, waits, polled, vsql, vres>>

\* faulty variant of get_dremio_catalog: the "data" list taken out of the body
get_dremio_catalog_data(r) ==
    /\ pc[r] = "catalog"
    /\ ~Blocked(r)
    /\ \E u \in CatalogResponses :
         /\ calls' = [calls EXCEPT ![r].catalog = @ + 1]
         /\ last' = [last EXCEPT ![r] = Received("catalog", u)]
         /\ IF Raises(u)
            THEN Finish(r, ErrorReply("httpx.HTTPError", CATALOG_API_ERROR))
            ELSE Finish(r, ReplyList(json_data(u.body)))
    /\ UNCHANGED <<cache, kind, sql, job_id, job_status, tokens, waits, polled, vsql, vres>>

\* the catalog call returns
get_dremio_catalog(r) ==
    /\ pc[r] = "catalog"
    /\ ~Blocked(r)
    /\ \E u \in CatalogResponses :
         /\ calls' = [calls EXCEPT ![r].catalog = @ + 1]
         /\ last' = [last EXCEPT ![r] = Received("catalog", u)]
         /\ IF Raises(u)
            THEN Finish(r, ErrorReply("httpx.HTTPError", CATALOG_API_ERROR))
            ELSE Finish(r, Reply(200, "None", "None", u.body))
    /\ UNCHANGED <<cache, kind, sql, job_id, job_status, tokens, waits, polled, vsql, vres>>

\* ---- GET /dremio/sources
\* sources up to the await of the source call: list_dremio_sources' token
sources(r) ==
    /\ pc[r] = "idle"
    /\ ~Blocked(r)
    /\ Arrived(r)
    /\ \E login \in LoginResponses :
         LET g == get_dremio_token(cache, login) IN
         /\ kind' = [kind EXCEPT ![r] = "sources"]
         /\ IF g.logins = 1
            THEN /\ Await(r, "login")
                 /\ UNCHANGED <<cache, tokens, calls, last>>
            ELSE /\ TokenCall(r, g, login, calls, last)
                 /\ IF g.exc = "none"
                    THEN Await(r, "source")
                    ELSE Finish(r, ErrorReply(g.exc, SOURCES_API_ERROR))
    /\ UNCHANGED <<sql, job_id, job_status, waits, polled, vsql, vres>>

\* faulty variant of list_dremio_sources: the filtered list returned
list_dremio_sources_filtered(r) ==
    /\ pc[r] = "source"
    /\ ~Blocked(r)
    /\ \E u \in SourceResponses :
         /\ calls' = [calls EXCEPT ![r].source = @ + 1]
         /\ last' = [last EXCEPT ![r] = Received("source", u)]
         /\ IF Raises(u)
            THEN Finish(r, ErrorReply("httpx.HTTPError", SOURCES_API_ERROR))
            ELSE LET items == json_data(u.body)
                     filtered == SelectSeq(items, LAMBDA item : item # "HOME")
                 IN  Finish(r, ReplyList(filtered))
    /\ UNCHANGED <<cache, kind, sql, job_id, job_status, tokens, waits, polled, vsql, vres>>

\* the source call returns: the filtered list is computed and items returned
list_dremio_sources(r) ==
    /\ pc[r] = "source"
    /\ ~Blocked(r)
    /\ \E u \in SourceResponses :
         /\ calls' = [calls EXCEPT ![r].source = @ + 1]
         /\ last' = [last EXCEPT ![r] = Received("source", u)]
         /\ IF Raises(u)
            THEN Finish(r, ErrorReply("httpx.HTTPError", SOURCES_API_ERROR))
            ELSE LET items == json_data(u.body)
                     filtered == SelectSeq(items, LAMBDA item : item # "HOME")
                 IN  Finish(r, ReplyList(items))
    /\ UNCHANGED <<cache, kind, sql, job_id, job_status, tokens, waits, polled, vsql, vres>>

\* ------------------------------------------------------------- specification

\* a suspended handler resumes when its upstream call returns
Resume(r) ==
    \/ get_dremio_token_login(r)
    \/ execute_dremio_query(r)
    \/ poll_dremio_job(r)
    \/ poll_dremio_job_results(r)
    \/ get_dremio_catalog(r)
    \/ list_dremio_sources(r)

Next ==
    \E r \in Requests :
        \/ run_query(r)
        \/ get_dremio_token_login(r)
        \/ execute_dremio_query(r)
        \/ poll_dremio_job(r)
        \/ poll_dremio_job_results(r)
        \/ catalog(r)
        \/ get_dremio_catalog(r)
        \/ sources(r)
        \/ list_dremio_sources(r)

Spec == Init /\ [][Next]_vars

\* every upstream call returns or times out (httpx's default timeout), and the
\* event loop resumes every handler whose call has returned
LiveSpec == Init /\ [][Next]_vars /\ \A r \in Requests : WF_vars(Resume(r))

\* ---- validate_sql alone, on generated texts
Pieces == {
    <<"S","E","L","E","C","T">>,
    <<"s","E","l","e","c","t">>,
    <<"U+017F","e","l","e","c","t">>,
    <<" ">>,
    <<"\n">>,
    <<"D","R","O","P">>,
    <<"'","u","s","e","'">>,
    <<"x">>,
    <<"_">>,
    <<";">>,
    <<"-","-">> }

\* the texts the specification's examples name
Examples == SampleSQL \cup {
    <<" "," ","s","e","l","e","c","t"," ","i","d"," ","f","r","o","m"," ","t">> }

RECURSIVE TextsOf(_)
TextsOf(n) ==
    IF n = 0 THEN {<<>>}
    ELSE LET shorter == TextsOf(n - 1)
         IN  shorter \cup {t \o p : t \in shorter, p \in Pieces}

validate ==
    /\ vres = -1
    /\ vres' = validate_sql(vsql)
    /\ UNCHANGED <<cache, pc, kind, sql, job_id, job_status, tokens, calls,
                   waits, last, resp, polled, vsql>>

ValidateInit ==
    /\ cache = NoEntry
    /\ pc = [r \in Requests |-> "idle"]
    /\ kind = [r \in Requests |-> "none"]
    /\ sql = [r \in Requests |-> <<>>]
    /\ job_id = [r \in Requests |-> "None"]
    /\ job_status = [r \in Requests |-> "None"]
    /\ tokens = [r \in Requests |-> <<>>]
    /\ calls = [r \in Requests |-> NoCalls]
    /\ waits = [r \in Requests |-> 0]
    /\ last = [r \in Requests |-> Received("none", NoResponse)]
    /\ resp = [r \in Requests |-> NoReply]
    /\ polled = [r \in Requests |-> "None"]
    /\ vsql \in TextsOf(MaxPieces) \cup Examples
    /\ vres = -1

ValidateNext == validate

ValidateSpec == ValidateInit /\ [][ValidateNext]_vars

\* ------------------------------------------------------------- SQL guard: properties
\* the text without its leading whitespace
RECURSIVE TrimLeading(_)
TrimLeading(s) ==
    IF s # <<>> /\ IsSpace(Head(s)) THEN TrimLeading(Tail(s)) ELSE s

FoldSeq(w) == [i \in 1..Len(w) |-> Fold(w[i])]

\* the words of a text: its maximal runs of word characters, <<first, last>>
WordRuns(s) ==
    {run \in (1..Len(s)) \X (1..Len(s)) :
        /\ run[1] <= run[2]
        /\ \A i \in run[1]..run[2] : IsWord(s[i])
        /\ (run[1] = 1 \/ ~IsWord(s[run[1] - 1]))
        /\ (run[2] = Len(s) \/ ~IsWord(s[run[2] + 1]))}

WordAt(s, run) == FoldSeq(SubSeq(s, run[1], run[2]))

\* the trimmed text begins with the word SELECT, in any letter case
BeginsWithSelect(s) ==
    LET t == TrimLeading(s)
    IN  \E run \in WordRuns(t) : run[1] = 1 /\ WordAt(t, run) = SELECT

\* some word of the text is a denylisted keyword, in any letter case
DenylistedRuns(s) ==
    {run \in WordRuns(s) : WordAt(s, run) \in Range(HARMFUL_COMMANDS)}

\* C6: validate fails with 400 for every text that, leading whitespace
\* removed, does not begin with the whole word SELECT in any letter case
C6_NonSelectRejected ==
    (vres # -1 /\ ~BeginsWithSelect(vsql)) => vres = 400

\* a text that begins with the letters of SELECT, not as a whole word, was rejected
C6_Witness ==
    /\ vres = 400
    /\ LiteralAt(TrimLeading(vsql), 1, SELECT, TRUE)
    /\ ~BeginsWithSelect(vsql)
    /\ DenylistedRuns(vsql) = {}

\* C7: validate fails for every text that begins with SELECT and contains a
\* denylisted keyword as a whole word anywhere, in any letter case
C7_DenylistedRejected ==
    (vres # -1 /\ BeginsWithSelect(vsql) /\ DenylistedRuns(vsql) # {}) => vres = 400

\* a SELECT text with a lower-case keyword inside quotes was rejected
C7_Witness ==
    /\ vres = 400
    /\ BeginsWithSelect(vsql)
    /\ \E run \in DenylistedRuns(vsql) :
          /\ vsql[run[1]] = "u"
          /\ run[1] > 1 /\ vsql[run[1] - 1] = "'"
          /\ run[2] < Len(vsql) /\ vsql[run[2] + 1] = "'"

\* C8: validate returns normally exactly for the texts that begin with SELECT
\* and contain no denylisted keyword as a whole word
C8_ValidAccepted ==
    vres # -1 => (vres = 0 <=> (BeginsWithSelect(vsql) /\ DenylistedRuns(vsql) = {}))

\* a text with leading whitespace and a lower-case select was accepted
C8_Witness ==
    /\ vres = 0
    /\ vsql # <<>> /\ IsSpace(vsql[1])
    /\ TrimLeading(vsql)[1] = "s"

\* ------------------------------------------------------------- requests: properties
RECURSIVE LoginsUpTo(_)
LoginsUpTo(n) == IF n = 0 THEN 0 ELSE calls[n].login + LoginsUpTo(n - 1)
\* login calls issued so far, by all requests
LoginCalls == LoginsUpTo(NumRequests)

\* C1: once a login has succeeded (the cache holds its value) no login call
\* is issued any more and the cached value never changes; every value
\* get_dremio_token has returned is the cached one, and a request that got
\* two values issued at most one login call
C1_CredentialCached ==
    /\ [][cache # NoEntry => (cache' = cache /\ LoginCalls' = LoginCalls)]_vars
    /\ [](\A r \in Requests :
            /\ \A i \in 1..Len(tokens[r]) : tokens[r][i] = cache
            /\ Len(tokens[r]) = 2 => calls[r].login <= 1)

\* one request logged in and got the token twice, a later one got it from the cache
C1_Witness ==
    \E r1, r2 \in Requests :
        /\ Len(tokens[r1]) = 2 /\ calls[r1].login = 1
        /\ Len(tokens[r2]) >= 1 /\ calls[r2].login = 0
        /\ LoginCalls = 1

\* C2: a query request whose SQL the guard rejects ends with HTTP 400, has
\* issued no outbound call and obtained no token, and leaves the cache as it was
C2_RejectedNoOutbound ==
    /\ [](\A r \in Requests :
            (kind[r] = "query" /\ <<sql[r], 400>> \in Verdicts) =>
                /\ pc[r] = "done"
                /\ resp[r].code = 400
                /\ calls[r] = NoCalls
                /\ tokens[r] = <<>>
                /\ last[r].op = "none")
    /\ [][\A r \in Requests :
            (pc[r] = "idle" /\ kind'[r] = "query" /\ <<sql'[r], 400>> \in Verdicts)
                => cache' = cache]_vars

\* "DELETE FROM x" was answered 400 with the cache still empty
C2_Witness ==
    \E r \in Requests :
        /\ sql[r] = <<"D","E","L","E","T","E"," ","F","R","O","M"," ","x">>
        /\ resp[r].code = 400
        /\ cache = NoEntry

\* C3: when n status polls returned a non-terminal state and the next one
\* COMPLETED, n + 1 status polls have been issued and the handler goes on to
\* the result fetch; when that fetch succeeds the request ends with HTTP 200
\* and the fetched body, after exactly one result fetch
C3_CompletedFetchesOnce ==
    \A r \in Requests :
        job_status[r] = "COMPLETED" =>
            /\ calls[r].status = waits[r] + 1
            /\ pc[r] \in {"results", "done"}
            /\ pc[r] = "results" => calls[r].results = 0
            /\ pc[r] = "done" =>
                  /\ calls[r].results = 1
                  /\ last[r].op = "results"
                  /\ ~Raises(last[r]) =>
                        /\ resp[r].code = 200
                        /\ resp[r].body = last[r].body

\* two non-terminal answers, then COMPLETED: three status polls, one fetch,
\* the body returned
C3_Witness ==
    \E r \in Requests :
        /\ waits[r] = 2
        /\ job_status[r] = "COMPLETED"
        /\ calls[r].status = 3
        /\ calls[r].results = 1
        /\ resp[r].code = 200
        /\ resp[r].body = "rowsB"

\* C4: when a status poll returns FAILED or CANCELED the request ends with
\* HTTP 500 whose detail names that state; no result fetch is issued and
\* that poll is the last call of the request
C4_FailedStateRaises ==
    \A r \in Requests :
        job_status[r] \in {"FAILED", "CANCELED"} =>
            /\ pc[r] = "done"
            /\ resp[r] = Reply(500, QUERY_FAILED, job_status[r], "None")
            /\ calls[r].results = 0
            /\ calls[r].status = waits[r] + 1
            /\ last[r] = Received("status", Ok(job_status[r]))

\* a job was CANCELED after a non-terminal answer
C4_Witness ==
    \E r \in Requests :
        /\ job_status[r] = "CANCELED"
        /\ waits[r] >= 1
        /\ resp[r].code = 500
        /\ resp[r].arg = "CANCELED"

\* C5: the poll loop is left only when a status poll fails or returns a
\* terminal state, however many polls have been answered; and with an engine
\* that answers only finitely many polls with a non-terminal state, every
\* request in the loop terminates
C5_PollUntilTerminal ==
    /\ [][\A r \in Requests :
            (pc[r] = "status" /\ pc'[r] # "status") =>
                (Raises(last'[r]) \/ last'[r].body \in TerminalStates)]_vars
    /\ \A r \in Requests : (pc[r] = "status") ~> (pc[r] = "done")

\* a request is still polling after MaxPolls non-terminal answers
C5_Witness ==
    \E r \in Requests :
        /\ pc[r] = "status"
        /\ waits[r] = MaxPolls
        /\ calls[r].status = MaxPolls

\* C9: when a login is answered with a status other than 200 the request
\* ends with HTTP 500 "Authentication with Dremio failed." and has issued no
\* submit, status, results, catalog or source call
C9_AuthFailureStops ==
    \A r \in Requests :
        (last[r].op = "login" /\ last[r].kind = "response" /\ last[r].status # 200) =>
            /\ pc[r] = "done"
            /\ resp[r] = Reply(500, AUTH_FAILED, "None", "None")
            /\ calls[r] = [NoCalls EXCEPT !.login = 1]
            /\ tokens[r] = <<>>

\* a catalog request and a query request were both refused by the login
C9_Witness ==
    \E r1, r2 \in Requests :
        /\ kind[r1] = "catalog" /\ kind[r2] = "query"
        /\ last[r1].op = "login" /\ last[r1].status = 401
        /\ last[r2].op = "login" /\ last[r2].status = 401
        /\ resp[r1].code = 500 /\ resp[r2].code = 500

\* C10: a transport error or non-2xx answer to a submit, status or results
\* call ends the request with HTTP 500 "Dremio API error: ...", the failed
\* call being its last: a request that has ended issues no call
C10_UpstreamFailureNotRetried ==
    /\ [](\A r \in Requests :
            (last[r].op \in {"submit", "status", "results"} /\ Raises(last[r])) =>
                /\ pc[r] = "done"
                /\ resp[r] = Reply(500, QUERY_API_ERROR, "httpx.HTTPError", "None"))
    /\ [][\A r \in Requests : pc[r] = "done" => calls'[r] = calls[r]]_vars

\* a submit, a status poll and a result fetch have failed, each once
C10_Witness ==
    \E r1, r2 \in Requests :
        /\ last[r1].op = "status" /\ last[r1].kind = "transport"
        /\ waits[r1] >= 1 /\ calls[r1].status = waits[r1] + 1
        /\ last[r2].op = "results" /\ last[r2].status = 500
        /\ calls[r2].results = 1
        /\ resp[r1].code = 500 /\ resp[r2].code = 500

\* C11: a query request is answered with the body the result fetch returned
\* exactly when the guard accepted its SQL, both token calls returned, the
\* submit succeeded, a status poll returned COMPLETED and the result fetch
\* succeeded; every other ended request carries an error, 400 exactly for a
\* guard rejection and 500 otherwise, and no result body
C11_AllOrNothing ==
    \A r \in Requests :
        (kind[r] = "query" /\ pc[r] = "done") =>
            LET accepted == <<sql[r], 0>> \in Verdicts
                fetched == /\ accepted
                           /\ Len(tokens[r]) = 2
                           /\ calls[r].submit = 1 /\ job_id[r] = JobIdOf(r)
                           /\ job_status[r] = "COMPLETED"
                           /\ last[r].op = "results" /\ ~Raises(last[r])
            IN  /\ resp[r].code = 200 <=> fetched
                /\ fetched => (resp[r].body = last[r].body /\ resp[r].body \in ResultBodies)
                /\ ~fetched => (resp[r].code \in {400, 500} /\ resp[r].body = "None")
                /\ resp[r].code = 400 <=> ~accepted
                /\ resp[r].items = <<>>

\* one query was answered with its rows, another failed at the result fetch
\* after COMPLETED and was answered 500 without rows
C11_Witness ==
    \E r1, r2 \in Requests :
        /\ kind[r1] = "query" /\ resp[r1].code = 200 /\ resp[r1].body = "rowsA"
        /\ kind[r2] = "query" /\ job_status[r2] = "COMPLETED"
        /\ last[r2].op = "results" /\ Raises(last[r2])
        /\ resp[r2].code = 500 /\ resp[r2].body = "None"

\* the upstream calls of a catalog or sources request that has ended: the
\* login, if this request made it, and one GET of op if the token was returned
OneGet(r, op) ==
    /\ calls[r].login <= 1
    /\ calls[r] = [NoCalls EXCEPT !.login = calls[r].login,
                                  ![op] = IF tokens[r] = <<>> THEN 0 ELSE 1]
    /\ tokens[r] # <<>> => last[r].op = op

\* C12 as stated: a catalog or sources request issues exactly one GET once
\* it has the token, and a successful one is answered with the JSON body of
\* that GET and nothing else
C12_BodyUnmodified ==
    \A r \in Requests :
        (kind[r] \in {"catalog", "sources"} /\ pc[r] = "done") =>
            /\ OneGet(r, IF kind[r] = "catalog" THEN "catalog" ELSE "source")
            /\ resp[r].code = 200 =>
                  (resp[r].body = last[r].body /\ resp[r].items = <<>>)

\* C12: a catalog or sources request issues exactly one GET once it has the
\* token; a successful catalog request is answered with the JSON body of that
\* GET, a successful sources request with the "data" list of the body (the
\* empty list when the body has none) and not with the body
C12_PassThrough ==
    \A r \in Requests :
        /\ (kind[r] = "catalog" /\ pc[r] = "done") =>
              /\ OneGet(r, "catalog")
              /\ resp[r].code = 200 =>
                    /\ ~Raises(last[r])
                    /\ resp[r].body = last[r].body /\ resp[r].body \in CatalogBodies
                    /\ resp[r].items = <<>>
        /\ (kind[r] = "sources" /\ pc[r] = "done") =>
              /\ OneGet(r, "source")
              /\ resp[r].code = 200 =>
                    /\ ~Raises(last[r])
                    /\ resp[r].body = "None"
                    /\ resp[r].items = json_data(last[r].body)
        /\ (kind[r] = "catalog" /\ pc[r] = "catalog") => calls[r].catalog = 0
        /\ (kind[r] = "sources" /\ pc[r] = "source") => calls[r].source = 0

\* a catalog request got the body of its GET, and a sources request whose
\* GET returned a body without "data" got the empty list
C12_Witness ==
    \E r1, r2 \in Requests :
        /\ kind[r1] = "catalog" /\ resp[r1].code = 200
        /\ last[r1].body = "catalogB" /\ resp[r1].body = "catalogB"
        /\ kind[r2] = "sources" /\ resp[r2].code = 200
        /\ last[r2].body = "sourcesB" /\ resp[r2].items = <<>>
        /\ calls[r1].catalog = 1 /\ calls[r2].source = 1

\* C13: the list a sources request is answered with has every item of the
\* "data" list the engine returned, those of type HOME too, in the same order
C13_HomeNotFiltered ==
    \A r \in Requests :
        (kind[r] = "sources" /\ pc[r] = "done" /\ resp[r].code = 200) =>
            LET data == json_data(last[r].body)
            IN  /\ Len(resp[r].items) = Len(data)
                /\ \A i \in 1..Len(data) : resp[r].items[i] = data[i]

\* a listing with a HOME item first was returned with it
C13_Witness ==
    \E r \in Requests :
        /\ kind[r] = "sources" /\ resp[r].code = 200
        /\ Len(resp[r].items) = 2
        /\ resp[r].items[1] = "HOME"

\* C14: the outbound calls of a query request are, in this order, at most one
\* submit, status polls and at most one result fetch.  A submit is the first
\* of them; a status poll follows a successful submit or a poll that returned
\* a non-terminal state, and names the job id the submit returned; a result
\* fetch directly follows a poll that returned COMPLETED and names that job
\* id; a request whose submit succeeded issues a status poll before it ends
C14_JobStateMachine ==
    /\ [](\A r \in Requests :
            /\ calls[r].submit <= 1 /\ calls[r].results <= 1
            /\ pc[r] \in {"status", "results"} => calls[r].submit = 1
            /\ (pc[r] = "done" /\ job_id[r] # "None") => calls[r].status >= 1
            /\ calls[r].status >= 1 =>
                  /\ calls[r].submit = 1
                  /\ job_id[r] = JobIdOf(r) /\ polled[r] = job_id[r]
            /\ calls[r].results = 1 =>
                  /\ calls[r].status >= 1
                  /\ job_status[r] = "COMPLETED")
    /\ [][\A r \in Requests :
            /\ calls'[r].submit # calls[r].submit =>
                  /\ calls[r].submit = 0 /\ calls[r].status = 0 /\ calls[r].results = 0
            /\ calls'[r].status # calls[r].status =>
                  /\ calls[r].submit = 1 /\ calls[r].results = 0
                  /\ job_id[r] = JobIdOf(r) /\ polled'[r] = job_id[r]
                  /\ IF calls[r].status = 0
                     THEN job_status[r] = "None"
                     ELSE last[r].op = "status" /\ ~Raises(last[r])
                          /\ last[r].body \notin TerminalStates
            /\ calls'[r].results # calls[r].results =>
                  /\ calls[r].results = 0
                  /\ last[r] = Received("status", Ok("COMPLETED"))
                  /\ polled'[r] = job_id[r] /\ polled[r] = job_id[r]]_vars

\* the second request submitted, was polled until COMPLETED under its own job
\* id and fetched its results
C14_Witness ==
    \E r \in Requests :
        /\ r > 1
        /\ calls[r].submit = 1 /\ calls[r].status >= 2 /\ calls[r].results = 1
        /\ polled[r] = JobIdOf(r)
        /\ job_status[r] = "COMPLETED"

\* a step of the handler of request r
StepOf(r) ==
    \/ run_query(r) \/ catalog(r) \/ sources(r)
    \/ Resume(r)

\* the next step of request r towards a successful answer
Advances(r) ==
    \/ pc[r] = "idle" /\ pc'[r] \in {"submit", "catalog", "source"}
    \/ pc[r] = "submit" /\ pc'[r] = "status"
    \/ pc[r] = "status" /\ pc'[r] = "results"
    \/ pc[r] \in {"results", "catalog", "source"}
          /\ pc'[r] = "done" /\ resp'[r].code = 200

\* C15: while a request is in its poll loop, however many polls it has made,
\* every other request that has arrived and not ended can take its next step
\* towards a successful answer, of each route if it has not started, with the
\* polling request staying in its loop and issuing no call meanwhile
C15_PollingDoesNotBlock ==
    \A r1, r2 \in Requests :
        (r1 # r2 /\ pc[r1] = "status" /\ pc[r2] # "done" /\ Arrived(r2)) =>
            IF pc[r2] = "idle"
            THEN \A k \in {"query", "catalog", "sources"} :
                     ENABLED (StepOf(r2) /\ Advances(r2) /\ kind'[r2] = k
                              /\ pc'[r1] = "status" /\ calls'[r1] = calls[r1])
            ELSE ENABLED (StepOf(r2) /\ Advances(r2)
                          /\ pc'[r1] = "status" /\ calls'[r1] = calls[r1])

\* a request that started after another ended with its answer while the
\* other, after MaxPolls polls, is still in its poll loop
C15_Witness ==
    \E r1, r2 \in Requests :
        /\ r1 < r2
        /\ pc[r1] = "status" /\ calls[r1].status = MaxPolls
        /\ pc[r2] = "done" /\ resp[r2].code = 200

\* the requests whose own login call succeeded
LoggedIn == {r \in Requests : calls[r].login = 1 /\ tokens[r] # <<>>}

\* C16 as stated: while the first login is in flight and the cache empty, a
\* request that has arrived can start and issue a login call of its own; and
\* every request that goes on holds a token, the cache holding one of those
\* the engine gave
C16_DuplicateLoginReachable ==
    /\ \A r1, r2 \in Requests :
          (r1 # r2 /\ pc[r1] = "login" /\ pc[r2] = "idle" /\ Arrived(r2)) =>
              ENABLED (Next /\ pc'[r2] = "login")
    /\ \A r \in Requests :
          pc[r] \in {"submit", "status", "results", "catalog", "source"} =>
              (tokens[r] # <<>> /\ cache \in Tokens)

\* C16: there is no race on the first login.  While a login call is in flight
\* the cache is empty, no other login call is in flight and no other request
\* starts, resumes or issues a call; once a login has succeeded no login call
\* is issued, so at most one login call ever succeeds; and every request that
\* goes on holds a token, the one the cache holds
C16_LoginSerialized ==
    /\ [](\A r1, r2 \in Requests :
            pc[r1] = "login" =>
                /\ cache = NoEntry
                /\ r1 # r2 => pc[r2] # "login")
    /\ [](Cardinality(LoggedIn) <= 1)
    /\ [](\A r \in Requests :
            pc[r] \in {"submit", "status", "results", "catalog", "source"} =>
                (tokens[r] # <<>> /\ \A i \in 1..Len(tokens[r]) : tokens[r][i] = cache))
    /\ [][\A r1, r2 \in Requests :
            (r1 # r2 /\ pc[r1] = "login") =>
                (pc'[r2] = pc[r2] /\ calls'[r2] = calls[r2])]_vars
    /\ [][\A r \in Requests :
            (pc[r] # "login" /\ pc'[r] = "login") =>
                (cache = NoEntry /\ LoggedIn = {})]_vars

\* the first login is in flight with the cache empty, and the next request has
\* arrived and waits for the event loop
C16_Witness ==
    \E r1, r2 \in Requests :
        /\ r1 # r2
        /\ pc[r1] = "login" /\ cache = NoEntry /\ LoginCalls = 0
        /\ pc[r2] = "idle" /\ Arrived(r2)

\* a login answered with a transport error or a status other than 200
FailedLogin(u) ==
    u.op = "login" /\ (u.kind = "transport" \/ u.status # 200)

\* C17: when a login call fails the cache stays empty; the cache is filled
\* only by a login call answered 200, with the token of that answer; and
\* while the cache is empty every request that asks for the token issues a
\* login call
C17_FailedLoginNotCached ==
    /\ [][\A r \in Requests :
            (calls'[r].login # calls[r].login /\ FailedLogin(last'[r])) =>
                (cache = NoEntry /\ cache' = NoEntry /\ tokens'[r] = <<>>)]_vars
    /\ [][cache' # cache =>
            \E r \in Requests :
                /\ calls'[r].login = calls[r].login + 1
                /\ last'[r] = Received("login", Ok(cache'))]_vars
    /\ [][\A r \in Requests :
            (cache = NoEntry /\ pc[r] = "idle" /\ pc'[r] # "idle"
                /\ ~(kind'[r] = "query" /\ <<sql'[r], 400>> \in Verdicts)) =>
                pc'[r] = "login"]_vars
    /\ [][\A r \in Requests :
            (pc[r] = "login" /\ pc'[r] # "login") =>
                (calls'[r].login = calls[r].login + 1 /\ last'[r].op = "login")]_vars
    /\ [](cache = NoEntry => \A r \in Requests : tokens[r] = <<>>)

\* one request's login failed and it ended; the next request logged in again,
\* with success
C17_Witness ==
    \E r1, r2 \in Requests :
        /\ pc[r1] = "done" /\ FailedLogin(last[r1]) /\ tokens[r1] = <<>>
        /\ calls[r2].login = 1 /\ last[r2] = Received("login", Ok("tokA"))
        /\ cache = "tokA" /\ LoginCalls = 2

\* a status answer that is none of COMPLETED, FAILED and CANCELED
OtherState(u) ==
    u.op = "status" /\ ~Raises(u) /\ u.body \notin {"COMPLETED", "FAILED", "CANCELED"}

\* C18: a status poll answered with any state other than COMPLETED, FAILED
\* and CANCELED, an unknown name or no jobState included, leaves the request
\* in the loop, unanswered and with no result fetch; the next call of the
\* request is another status poll, and that poll can be made
C18_OtherStatesNonTerminal ==
    /\ [][\A r \in Requests :
            (calls'[r].status # calls[r].status /\ OtherState(last'[r])) =>
                /\ pc'[r] = "status"
                /\ resp'[r] = NoReply
                /\ calls'[r].results = 0
                /\ job_status'[r] = last'[r].body]_vars
    /\ [][\A r \in Requests :
            (OtherState(last[r]) /\ calls'[r] # calls[r]) =>
                calls'[r] = [calls[r] EXCEPT !.status = @ + 1]]_vars
    /\ [](\A r \in Requests :
            OtherState(last[r]) =>
                /\ pc[r] = "status"
                /\ ENABLED (poll_dremio_job(r)
                            /\ calls'[r].status = calls[r].status + 1))

\* one request polls again after an unknown state name, another after an
\* answer with no jobState
C18_Witness ==
    \E r1, r2 \in Requests :
        /\ last[r1] = Received("status", Ok("CANCELLED"))
        /\ pc[r1] = "status" /\ calls[r1].status = 2
        /\ last[r2] = Received("status", Ok("None"))
        /\ pc[r2] = "status" /\ calls[r2].status = 2
====
